---- MODULE Spec2Model ----
(***************************************************************************)
(* Model of the calendar routing workflow of src/main.py:                  *)
(* process_calendar_request = router model call, confidence gate, dispatch *)
(* on request_type, one handler extraction call, update of the shared      *)
(* events mapping.  The chat model and the schema validation are external: *)
(* every outcome they can produce (failure, malformed content, any         *)
(* schema-valid object) is a nondeterministic choice.                      *)
(***************************************************************************)
EXTENDS Integers, Sequences, FiniteSets, TLC

VARIABLES
    events,        \* the shared dict passed to every request (main.py:194)
    pc,            \* position inside process_calendar_request
    user_input,    \* argument of the request in progress
    eventsBefore,  \* events as it was when the request in progress started
    modelOutput,   \* Optional: the route decision as the model produced it
    route_result,  \* Optional: what route_calendar_request returned
    description,   \* Optional: the text handed to the chosen handler
    details,       \* Optional: the extraction result the handler validated
    result,        \* Optional[CalendarResponse] returned by the request
    error,         \* the exception that left the request, "none" if none
    routerCalls,   \* chat() calls made by the router for this request
    handlerCalls   \* chat() calls made by a handler for this request

vars == <<events, pc, user_input, eventsBefore, modelOutput, route_result,
          description, details, result, error, routerCalls, handlerCalls>>

\* Longest changes list the extraction model returns in this model.
MaxChanges == 2

-----------------------------------------------------------------------------
\* Python values.  Optional[T]: None is the empty tuple, a value is a 1-tuple.
None == <<>>
Some(x) == <<x>>
IsNone(o) == o = <<>>
Get(o) == o[1]

\* Values stored in the dict keep their Python type as a tag.
StrVal(s) == <<"str", s>>
IntVal(i) == <<"int", i>>
DateTime(d) == <<"datetime", d>>
ListVal(l) == <<"list", l>>

\* A Python float: nan, or a number counted in hundredths.
Float(h) == [nan |-> FALSE, hundredths |-> h]
NaN == [nan |-> TRUE, hundredths |-> 0]
\* a < b on floats: every comparison with nan is False.
FloatLess(a, b) == ~a.nan /\ ~b.nan /\ a.hundredths < b.hundredths
FloatGeq(a, b) == ~a.nan /\ ~b.nan /\ a.hundredths >= b.hundredths

\* The empty dict, and dict.update(upd).
EmptyDict == [k \in {} |-> None]
DictUpdate(d, upd) ==
    [k \in DOMAIN d \cup DOMAIN upd |-> IF k \in DOMAIN upd THEN upd[k] ELSE d[k]]

\* All sequences over S of length at most n.
SeqUpTo(S, n) == UNION {[1..k -> S] : k \in 0..n}

-----------------------------------------------------------------------------
\* Inputs and model outputs the model draws from.
UserInputs == {"move the meeting", "team meeting tuesday"}
DetailTexts == {"move the meeting", "cleaned"}
Confidences == {Float(-20), Float(69), Float(70), Float(150), NaN}
RequestTypes == {"new_event", "modify_event", "other"}
EventNames == {"standup"}
EventDates == {"tue 2pm", "wed 3pm"}
Durations == {60}
ParticipantLists == {<<>>, <<"alice", "bob">>}
ChangeFields == {"date", "participants", "location"}
ChangeValues == {"wed 3pm", "room 4"}
Identifiers == {"team meeting"}
OptParticipantLists == {None, Some(<<"carol">>)}

\* The pydantic schemas: every object that passes model_validate_json.
CalendarRequestType ==
    [request_type : RequestTypes, confidence_score : Confidences, details : DetailTexts]

NewEventDetails ==
    [name : EventNames, date : EventDates, duration_minutes : Durations,
     participants : ParticipantLists]

Change == [field : ChangeFields, new_value : ChangeValues]

ModifyEventDetails ==
    [event_identifier : Identifiers, changes : SeqUpTo(Change, MaxChanges),
     participants_to_add : OptParticipantLists,
     participants_to_remove : OptParticipantLists]

CalendarResponse(success, message, calendar_link) ==
    [success |-> success, message |-> message, calendar_link |-> calendar_link]

-----------------------------------------------------------------------------
\* route_calendar_request after validation: details is overwritten with the
\* caller's text before the decision is returned.
RouteKeepsModelDetails(decision, input) == decision

RouteResult(decision, input) == [decision EXCEPT !.details = input]

\* The gate: confidence_score < 0.7.
Threshold == Float(70)

LowConfidenceHalf(c) == FloatLess(c, Float(50))

LowConfidence(c) == FloatLess(c, Threshold)

\* The if / elif / else on request_type: the next position.
DispatchElseModify(request_type) ==
    IF request_type = "new_event" THEN "handle_new_event" ELSE "handle_modify_event"

Dispatch(request_type) ==
    IF request_type = "new_event" THEN "handle_new_event"
    ELSE IF request_type = "modify_event" THEN "handle_modify_event"
    ELSE "returned"

\* events.update({...}) of handle_new_event.
NewEventUpdateNoDuration(ev, d) ==
    DictUpdate(ev, [name |-> StrVal(d.name), date |-> DateTime(d.date),
                    participants |-> ListVal(d.participants)])

NewEventUpdateReplace(ev, d) ==
    [name |-> StrVal(d.name), date |-> DateTime(d.date),
     duration_minutes |-> IntVal(d.duration_minutes),
     participants |-> ListVal(d.participants)]

NewEventUpdate(ev, d) ==
    DictUpdate(ev, [name |-> StrVal(d.name), date |-> DateTime(d.date),
                    duration_minutes |-> IntVal(d.duration_minutes),
                    participants |-> ListVal(d.participants)])

NewEventResponse(d) ==
    CalendarResponse(TRUE, <<"Created new event", d.name, d.date, d.participants>>,
                     <<"calendar://new?event=", d.name>>)

\* events.update({changes[0].field: changes[0].new_value}) of
\* handle_modify_event; Python's changes[0] is changes[1] here.
ModifyUpdateWithParticipants(ev, d) ==
    LET first == DictUpdate(ev, [k \in {d.changes[1].field} |-> StrVal(d.changes[1].new_value)])
    IN  IF IsNone(d.participants_to_add) THEN first
        ELSE DictUpdate(first, [participants |-> ListVal(Get(d.participants_to_add))])

ModifyUpdate(ev, d) ==
    DictUpdate(ev, [k \in {d.changes[1].field} |-> StrVal(d.changes[1].new_value)])

ModifyResponse(d) ==
    CalendarResponse(TRUE, <<"Modified event", d.event_identifier,
                             "with the requested changes">>,
                     <<"calendar://modify?event=", d.event_identifier>>)

\* What handle_modify_event does with a validated extraction result:
\* changes[0] on an empty list raises IndexError while the argument of
\* update is still being built.
ModifyOutcomeParticipantsFirst(ev, d) ==
    IF Len(d.changes) = 0
    THEN [error |-> "IndexError",
          events |-> IF IsNone(d.participants_to_add) THEN ev
                     ELSE DictUpdate(ev, [participants |-> ListVal(Get(d.participants_to_add))]),
          result |-> None]
    ELSE [error |-> "none", events |-> ModifyUpdate(ev, d),
          result |-> Some(ModifyResponse(d))]

ModifyOutcome(ev, d) ==
    IF Len(d.changes) = 0
    THEN [error |-> "IndexError", events |-> ev, result |-> None]
    ELSE [error |-> "none", events |-> ModifyUpdate(ev, d),
          result |-> Some(ModifyResponse(d))]

-----------------------------------------------------------------------------
Init ==
    /\ events = EmptyDict
    /\ pc = "idle"
    /\ user_input = ""
    /\ eventsBefore = EmptyDict
    /\ modelOutput = None
    /\ route_result = None
    /\ description = None
    /\ details = None
    /\ result = None
    /\ error = "none"
    /\ routerCalls = 0
    /\ handlerCalls = 0

\* A caller invokes process_calendar_request(text, events).
Call(text) ==
    /\ pc = "idle"
    /\ pc' = "route"
    /\ user_input' = text
    /\ eventsBefore' = events
    /\ UNCHANGED <<events, modelOutput, route_result, description, details,
                   result, error, routerCalls, handlerCalls>>

\* An exception leaves the request; nothing catches it.
Raise(e) ==
    /\ pc' = "raised"
    /\ error' = e

\* route_calendar_request: one chat call, validation, details overwritten.
Route ==
    /\ pc = "route"
    /\ routerCalls' = routerCalls + 1
    /\ \/ /\ \E e \in {"ResponseError", "ValidationError"} : Raise(e)
          /\ UNCHANGED <<modelOutput, route_result>>
       \/ \E decision \in CalendarRequestType :
            /\ modelOutput' = Some(decision)
            /\ route_result' = Some(RouteResult(decision, user_input))
            /\ pc' = "gate"
            /\ UNCHANGED error
    /\ UNCHANGED <<events, user_input, eventsBefore, description, details,
                   result, handlerCalls>>

\* The confidence check and the dispatch on request_type.
Gate ==
    /\ pc = "gate"
    /\ IF LowConfidence(Get(route_result).confidence_score)
       THEN pc' = "returned"
       ELSE pc' = Dispatch(Get(route_result).request_type)
    /\ description' = IF pc' \in {"handle_new_event", "handle_modify_event"}
                      THEN Some(Get(route_result).details) ELSE None
    /\ UNCHANGED <<events, user_input, eventsBefore, modelOutput, route_result,
                   details, result, error, routerCalls, handlerCalls>>

\* handle_new_event: one chat call, validation, update, response.
HandleNewEvent ==
    /\ pc = "handle_new_event"
    /\ handlerCalls' = handlerCalls + 1
    /\ \/ /\ \E e \in {"ResponseError", "ValidationError"} : Raise(e)
          /\ UNCHANGED <<events, details, result>>
       \/ \E d \in NewEventDetails :
            /\ details' = Some(d)
            /\ events' = NewEventUpdate(events, d)
            /\ result' = Some(NewEventResponse(d))
            /\ pc' = "returned"
            /\ UNCHANGED error
    /\ UNCHANGED <<user_input, eventsBefore, modelOutput, route_result,
                   description, routerCalls>>

\* handle_modify_event: one chat call, validation, update, response.
HandleModifyEvent ==
    /\ pc = "handle_modify_event"
    /\ handlerCalls' = handlerCalls + 1
    /\ \/ /\ \E e \in {"ResponseError", "ValidationError"} : Raise(e)
          /\ UNCHANGED <<events, details, result>>
       \/ \E d \in ModifyEventDetails :
            LET out == ModifyOutcome(events, d) IN
            /\ details' = Some(d)
            /\ events' = out.events
            /\ result' = out.result
            /\ error' = out.error
            /\ pc' = IF out.error = "none" THEN "returned" ELSE "raised"
    /\ UNCHANGED <<user_input, eventsBefore, modelOutput, route_result,
                   description, routerCalls>>

\* The caller has the return value or the exception; only events lives on.
Finish ==
    /\ pc \in {"returned", "raised"}
    /\ pc' = "idle"
    /\ user_input' = ""
    /\ eventsBefore' = EmptyDict
    /\ modelOutput' = None
    /\ route_result' = None
    /\ description' = None
    /\ details' = None
    /\ result' = None
    /\ error' = "none"
    /\ routerCalls' = 0
    /\ handlerCalls' = 0
    /\ UNCHANGED events

Next ==
    \/ \E text \in UserInputs : Call(text)
    \/ Route
    \/ Gate
    \/ HandleNewEvent
    \/ HandleModifyEvent
    \/ Finish

Spec == Init /\ [][Next]_vars

-----------------------------------------------------------------------------
\* Helpers of the properties below.
Confidence == Get(route_result).confidence_score
RequestType == Get(route_result).request_type
PastGate == pc \in {"handle_new_event", "handle_modify_event", "returned", "raised"}
Routed == PastGate /\ ~IsNone(route_result)
Ended == pc \in {"returned", "raised"}
Maps(ev, k, v) == k \in DOMAIN ev /\ ev[k] = v
Kept(k) == k \in DOMAIN eventsBefore => Maps(events, k, eventsBefore[k])
Untouched(k) ==
    /\ k \in DOMAIN events <=> k \in DOMAIN eventsBefore
    /\ Kept(k)
NewEventKeys == {"name", "date", "duration_minutes", "participants"}
ChangedFields(d) == {d.changes[i].field : i \in 1..Len(d.changes)}

\* C1: a route decision with confidence_score below 0.7, of any request_type,
\* makes the request return None with no handler extraction call and with
\* events exactly as it was before the request.
C1_LowConfidenceRejected ==
    (Routed /\ FloatLess(Confidence, Float(70))) =>
        /\ pc = "returned"
        /\ IsNone(result)
        /\ handlerCalls = 0
        /\ IsNone(description)
        /\ events = eventsBefore

C1_Witness ==
    /\ pc = "returned"
    /\ ~IsNone(route_result)
    /\ Confidence = Float(69)
    /\ RequestType = "new_event"
    /\ events # EmptyDict

\* C2: a request routed as other returns None at any confidence_score and
\* leaves events with the same keys and the same values, whatever requests
\* came before.
C2_OtherNeverMutates ==
    (Routed /\ RequestType = "other") =>
        /\ pc = "returned"
        /\ IsNone(result)
        /\ handlerCalls = 0
        /\ events = eventsBefore

C2_Witness ==
    /\ pc = "returned"
    /\ ~IsNone(route_result)
    /\ RequestType = "other"
    /\ FloatGeq(Confidence, Float(70))
    /\ "location" \in DOMAIN events
    /\ "name" \in DOMAIN events

\* C3: after a new_event request that passed the gate and extracted its
\* details, events maps name, date, duration_minutes and participants to the
\* extracted values, every other key keeps its previous value, and no other
\* key appears or disappears.
C3_NewEventSetsExactlyItsFields ==
    (pc = "returned" /\ ~IsNone(route_result) /\ RequestType = "new_event"
        /\ ~IsNone(details)) =>
        LET d == Get(details) IN
        /\ Maps(events, "name", StrVal(d.name))
        /\ Maps(events, "date", DateTime(d.date))
        /\ Maps(events, "duration_minutes", IntVal(d.duration_minutes))
        /\ Maps(events, "participants", ListVal(d.participants))
        /\ DOMAIN events = DOMAIN eventsBefore \cup NewEventKeys
        /\ \A k \in DOMAIN events \ NewEventKeys : Untouched(k)

C3_Witness ==
    /\ pc = "returned"
    /\ ~IsNone(route_result)
    /\ RequestType = "new_event"
    /\ ~IsNone(details)
    /\ "location" \in DOMAIN eventsBefore
    /\ Maps(eventsBefore, "date", StrVal("wed 3pm"))
    /\ Maps(events, "date", DateTime("tue 2pm"))

\* C4: after a modify_event request that passed the gate and extracted its
\* details, every key of events that is new or whose value differs is the
\* field of some entry of details.changes; every other key, participants
\* included, is as it was.
C4_ModifyTouchesOnlyNamedFields ==
    (Ended /\ ~IsNone(route_result) /\ RequestType = "modify_event"
        /\ ~IsNone(details)) =>
        \A k \in (DOMAIN events \cup DOMAIN eventsBefore) \ ChangedFields(Get(details)) :
            Untouched(k)

C4_Witness ==
    /\ pc = "returned"
    /\ ~IsNone(route_result)
    /\ RequestType = "modify_event"
    /\ ~IsNone(details)
    /\ ~IsNone(Get(details).participants_to_add)
    /\ ~IsNone(Get(details).participants_to_remove)
    /\ Maps(events, "participants", ListVal(<<"alice", "bob">>))
    /\ events # eventsBefore

\* C5: every route decision returned by route_calendar_request has a
\* confidence_score within [0,1].
C5_ConfidenceInUnitInterval ==
    ~IsNone(route_result) =>
        /\ FloatGeq(Confidence, Float(0))
        /\ FloatGeq(Float(100), Confidence)

\* C6: over any sequence of requests the set of keys of events never
\* shrinks: no step removes a key.
C6_KeysNeverShrink == [][DOMAIN events \subseteq DOMAIN events']_vars

C6_Witness ==
    /\ pc = "returned"
    /\ ~IsNone(route_result)
    /\ RequestType = "new_event"
    /\ events # eventsBefore
    /\ "location" \in DOMAIN eventsBefore
    /\ "location" \in DOMAIN events

C8_AcceptedRequestSucceeds ==
    (Ended /\ ~IsNone(route_result) /\ FloatGeq(Confidence, Float(70))
        /\ RequestType \in {"new_event", "modify_event"} /\ ~IsNone(details)) =>
        /\ pc = "returned"
        /\ ~IsNone(result)
        /\ Get(result).success

\* C9: when handle_modify_event returns its success response, every entry of
\* a changes list with distinct field names has been applied:
\* events[change.field] = change.new_value.
C9_AllChangesApplied ==
    (pc = "returned" /\ ~IsNone(route_result) /\ RequestType = "modify_event"
        /\ ~IsNone(result)) =>
        LET changes == Get(details).changes IN
        (\A i, j \in 1..Len(changes) : changes[i].field = changes[j].field => i = j) =>
            \A i \in 1..Len(changes) :
                Maps(events, changes[i].field, StrVal(changes[i].new_value))

\* C10: a request that ends in an error (router or handler call failed,
\* output failed validation, handler failed reading the result) lets the
\* error out with no model call made twice, no return value, and events
\* exactly as it was before the request.
C10_FailureLeavesEventsAlone ==
    pc = "raised" =>
        /\ error # "none"
        /\ IsNone(result)
        /\ routerCalls = 1
        /\ handlerCalls <= 1
        /\ events = eventsBefore

C10_Witness ==
    /\ pc = "raised"
    /\ error = "IndexError"
    /\ ~IsNone(Get(details).participants_to_add)
    /\ "participants" \in DOMAIN events
    /\ "location" \in DOMAIN events

====
